---- MODULE Spec2Model ----
(***************************************************************************)
(* Auxiliary-engine coordination layer of src/mcts/auxengine.cc:           *)
(* the worker pool (Search::AuxEngineWorker), the work queue and its       *)
(* source-tag queue (SearchWorker::AuxMaybeEnqueueNode), the admission     *)
(* check, the helper protocol loop (Search::DoAuxEngine) and the PV        *)
(* decoder (Search::AuxEncode_and_Enqueue).                                *)
(*                                                                         *)
(* Every critical section of auxengine_mutex_ that contains no blocking    *)
(* call is one action guarded by the mutex being free; the registration    *)
(* section, which blocks on the helper while holding the mutex, keeps the  *)
(* mutex across actions.  A step of the code is recognised in a property   *)
(* by the worker's position before and after it.  Variables whose name     *)
(* starts with g_ are history variables: they record what the code did;    *)
(* the actions read them only to bound the model (MaxEnqueue,              *)
(* MaxHelperLines, MaxMoves).  Each group of properties is checked under   *)
(* its own specification: SpecQ (the Work Queue under load), SpecP (the    *)
(* helper protocol), SpecL (progress of the admission check, with          *)
(* fairness), SpecB (two workers publishing side by side), SpecR           *)
(* (registration, purge and exit of the workers of one move), SpecD (the   *)
(* PV decoder on a family of info lines), SpecG (the workers of four       *)
(* helper instances over the moves of a game), SpecS (shutdown, with       *)
(* fairness) and SpecT (the source-tag queue over a whole move).           *)
(***************************************************************************)
EXTENDS Integers, Sequences, FiniteSets, TLC

\* ---------------------------------------------------------------- bounds
NThreads == 3
MaxEnqueue == 2
MaxHelperLines == 3
MaxSources == 3

\* ------------------------------------------------------ program constants
AuxEngineMaxDepth == 2
RootProbeSource == 3
DepthFloor == 14
max_pv_length == 99

\* ------------------------------------------------------------- the tree
Threads == 1..NThreads
NoThread == 0

root_node_ == "r"
Nodes == {"r", "a", "b", "c"}
Garbage == "garbage"

GetParent(nd) == CASE nd = "a" -> "r"
                   [] nd = "b" -> "a"
                   [] nd = "c" -> "b"
                   [] OTHER -> "r"

RECURSIVE DepthFromRoot(_)
DepthFromRoot(nd) == IF nd = root_node_ THEN 0 ELSE 1 + DepthFromRoot(GetParent(nd))

\* the calls AuxMaybeEnqueueNode(n, source) the primary search makes
EnqueueInputs == {<<"b", 1>>, <<"c", 2>>}

\* lines 46-47 and 492: the draw of distribution(generator), as a fraction
\* <<num, den>>.  uniform_real_distribution(1, 0) has its bounds reversed, which
\* is undefined; the draw a + (b - a) * u it computes lies in (0, 1]
Samples == {<<1, 4>>, <<3, 4>>, <<1, 1>>}

\* ------------------------------------------------------- helper protocol
\* lines a helper can emit, as token sequences; <<>> is the empty string
L_info20 == <<"info", "depth", "20", "pv", "e2e4", "e7e5">>
L_info10 == <<"info", "depth", "10", "pv", "e2e4", "e7e5">>
L_bestmove == <<"bestmove", "e2e4">>
L_bestmove_info == <<"bestmove", "info">>
EmptyLine == <<>>
EndOfStream == <<"<eof>">>

InfoLines == {L_info20, L_info10}
HelperLines == {L_info20, L_bestmove, L_bestmove_info}

\* ------------------------------------------------------- move encoding
MoveStrings == {"e2e4", "e7e5", "g1f3", "g8f6"}

Mirror(m) == CASE m = "e2e4" -> "e7e5"
               [] m = "e7e5" -> "e2e4"
               [] m = "g1f3" -> "g8f6"
               [] m = "g8f6" -> "g1f3"
               [] OTHER -> m

\* Move::ParseMove(&m, str, black): FALSE when str is no move
ParseMoveOk(str) == str \in MoveStrings
ParseMove(str, black) == IF black THEN Mirror(str) ELSE str

\* ChessBoard::GetModernMove: changes castling moves only
GetModernMove(m) == m

\* played_history_.IsBlackToMove() of the root position
IsBlackToMove == FALSE

\* Edge::GetMove() of the edge leading to a node (mover's perspective)
OwnMove(nd) == CASE nd = "a" -> "e2e4"
                 [] nd = "b" -> "e2e4"
                 [] nd = "c" -> "g1f3"
                 [] OTHER -> "e2e4"

NumberTokens == {"0", "1", "2", "3", "10", "14", "15", "20", "120"}
NumVal(tok) == CASE tok = "0" -> 0
                 [] tok = "1" -> 1
                 [] tok = "2" -> 2
                 [] tok = "3" -> 3
                 [] tok = "10" -> 10
                 [] tok = "14" -> 14
                 [] tok = "15" -> 15
                 [] tok = "20" -> 20
                 [] tok = "120" -> 120
                 [] OTHER -> 0

\* ------------------------------------------- Search::AuxEncode_and_Enqueue
\* The token loop of lines 388-434.  st is the function's local state:
\* depth_reached, pv_length, flip, the board's flipped() and pv_moves.
DecodeInit(depth) ==
  [depth_reached |-> 0,
   pv_length |-> 1,
   flip |-> (IsBlackToMove # (depth % 2 = 0)),
   flipped |-> (IsBlackToMove # (depth % 2 = 1)),
   returned |-> FALSE,
   pv_moves |-> <<>>]

\* lines 407-431: one PV token converted and appended
DecodeMove(st, tok) ==
  LET m == ParseMove(tok, ~st.flip)
      m1 == GetModernMove(m)
      m2 == IF st.flipped THEN Mirror(m1) ELSE m1
      m3 == GetModernMove(m2)
      m4 == IF st.flipped THEN Mirror(m3) ELSE m3
  IN [st EXCEPT !.pv_moves = Append(@, m4),
                !.flipped = ~@,
                !.flip = ~@,
                !.pv_length = @ + 1]

\* a variant of PvAccepted: the depth floor is applied whatever the flag says
PvAccepted_floor_always(require_some_depth, depth_reached) == depth_reached > DepthFloor

\* the condition of line 403
PvAccepted(require_some_depth, depth_reached) ==
  ~require_some_depth \/ depth_reached > DepthFloor

\* a variant of PvLoopContinues: the PV is capped by max_pv_length only
PvLoopContinues_nodepth(st) == st.pv_length < max_pv_length

\* the loop condition of lines 405-406, after the token was extracted
PvLoopContinues(st) ==
  st.pv_length < st.depth_reached /\ st.pv_length < max_pv_length

RECURSIVE DecodeOuter(_, _, _, _), DecodeInner(_, _, _, _)

\* a variant of DecodeInner: a token that is no move is skipped and the PV loop
\* goes on with the next one
DecodeInner_skip(toks, i, st, require_some_depth) ==
  IF i <= Len(toks) /\ PvLoopContinues(st)
  THEN DecodeInner(toks, i + 1,
                   IF ParseMoveOk(toks[i]) THEN DecodeMove(st, toks[i]) ELSE st,
                   require_some_depth)
  ELSE IF i > Len(toks) THEN st
  ELSE DecodeOuter(toks, i + 1, st, require_some_depth)

\* lines 404-432: the PV loop; it is left for the outer loop at the first token
\* that is no move (line 410) or when the loop condition fails
DecodeInner(toks, i, st, require_some_depth) ==
  IF i <= Len(toks) /\ PvLoopContinues(st) /\ ParseMoveOk(toks[i])
  THEN DecodeInner(toks, i + 1, DecodeMove(st, toks[i]), require_some_depth)
  ELSE IF i > Len(toks) THEN st
  ELSE DecodeOuter(toks, i + 1, st, require_some_depth)

DecodeOuter(toks, i, st, require_some_depth) ==
  IF i > Len(toks) THEN st
  ELSE IF toks[i] = "info" THEN DecodeOuter(toks, i + 1, st, require_some_depth)
  ELSE IF toks[i] = "string" THEN [st EXCEPT !.returned = TRUE]
  ELSE IF toks[i] = "depth" THEN
       IF i + 1 <= Len(toks) /\ toks[i + 1] \in NumberTokens
       THEN DecodeOuter(toks, i + 2,
                        [st EXCEPT !.depth_reached = NumVal(toks[i + 1])],
                        require_some_depth)
       ELSE [st EXCEPT !.depth_reached = 0]
  ELSE IF toks[i] = "pv" /\ PvAccepted(require_some_depth, st.depth_reached)
       THEN DecodeInner(toks, i + 1, st, require_some_depth)
  ELSE DecodeOuter(toks, i + 1, st, require_some_depth)

\* pv_moves at line 436; nothing when the function returned at line 394
DecodePV(toks, depth, require_some_depth) ==
  LET st == DecodeOuter(toks, 1, DecodeInit(depth), require_some_depth)
  IN IF st.returned THEN <<>> ELSE st.pv_moves

\* my_moves_from_the_white_side of lines 531-541: the path root -> nd
RECURSIVE PathFromRoot(_)
PathFromRoot(nd) ==
  IF nd = root_node_ \/ nd = Garbage THEN <<>>
  ELSE Append(PathFromRoot(GetParent(nd)), OwnMove(nd))


\* ================================================================ state
VARIABLES
  stop_,                        \* Search::stop_
  auxengine_mutex_,             \* holder of auxengine_mutex_, NoThread when free
  auxengine_cv_,                \* threads blocked in auxengine_cv_.wait
  persistent_queue_of_nodes,    \* the Work Queue
  source_of_queued_nodes,       \* the source-tag queue
  aux_pending,                  \* nodes whose AuxEngineMove is 0xfffe
  fast_track_extend_and_evaluate_queue_,   \* the Result Queue
  source_of_PVs,                \* the provenance queue
  thread_counter,               \* search_stats_->thread_counter
  vector_of_auxengine_ready_,   \* one flag per helper session
  helper_running,               \* vector_of_children[i]->running()
  auxengine_stopped_,           \* one latch per registration
  root_has_edges,               \* root_node_->GetNumEdges() > 0
  pc,                           \* each worker thread's position
  our_index,                    \* AuxEngineWorker's our_index
  n,                            \* the node a worker is working on
  depth,                        \* DoAuxEngine's depth
  source,                       \* DoAuxEngine's source
  prev_line,                    \* DoAuxEngine's prev_line
  stopping,                     \* DoAuxEngine's stopping
  second_stopping,              \* DoAuxEngine's second_stopping
  pc_enq,                       \* the primary search inside AuxMaybeEnqueueNode
  enq_n,                        \* AuxMaybeEnqueueNode's n
  enq_source,                   \* AuxMaybeEnqueueNode's source
  g_query,                      \* history: per worker, what its current query did
  g_enq_calls,                  \* history: number of AuxMaybeEnqueueNode calls
  g_helper_lines,               \* history: number of non-terminal lines the helpers emitted
  g_sample,                     \* history: the last value drawn from distribution (line 492)
  g_deferred,                   \* history: the nodes re-queued by the admission check and not admitted since
  g_moves,                      \* history: number of moves whose workers were started
  final_purge_run,              \* search_stats_->final_purge_run
  size_of_queue_at_start,       \* search_stats_->size_of_queue_at_start
  New_Game,                     \* search_stats_->New_Game
  g_purges,                     \* history: number of purges of the Work Queue run in this move
  auxengine_num_evals,          \* Search::auxengine_num_evals
  evals_read                    \* per worker: the value loaded by auxengine_num_evals++ (line 680)

queues == <<persistent_queue_of_nodes, source_of_queued_nodes, aux_pending>>
results == <<fast_track_extend_and_evaluate_queue_, source_of_PVs>>
sessions == <<thread_counter, vector_of_auxengine_ready_, helper_running>>
purge_state == <<final_purge_run, size_of_queue_at_start, New_Game, g_purges>>
eval_stats == <<auxengine_num_evals, evals_read>>
shared == <<stop_, auxengine_mutex_, auxengine_cv_, queues, results, sessions,
            auxengine_stopped_, root_has_edges, purge_state, eval_stats>>
dae_locals == <<n, depth, source, prev_line, stopping, second_stopping, g_query>>
locals == <<pc, our_index, dae_locals>>
enqueuer == <<pc_enq, enq_n, enq_source>>
history == <<g_enq_calls, g_helper_lines, g_sample, g_deferred, g_moves>>
vars == <<shared, locals, enqueuer, history>>

NoSample == <<0, 1>>
NoQuery == [lines |-> 0, pushed |-> 0,
            stop_signal |-> 0, stop_anomaly |-> 0, stop_malformed |-> 0,
            latch_at_signal |-> FALSE]
GarbageTag == 0

\* std::queue::front() and pop(); on an empty queue the behaviour is undefined
Front(q) == IF Len(q) = 0 THEN GarbageTag ELSE Head(q)
Pop(q) == IF Len(q) = 0 THEN q ELSE Tail(q)
\* std::queue::push
QueuePush(q, x) == Append(q, x)

\* The state once `started` workers have registered (lines 97-295, thread t holds
\* index t - 1) and the primary search has made the calls AuxMaybeEnqueueNode(e[1], e[2])
\* for the entries e of `queued`, in that order, with no worker running yet.
InitRegistered(started, queued) ==
  /\ stop_ = FALSE
  /\ auxengine_mutex_ = NoThread
  /\ auxengine_cv_ = {}
  /\ persistent_queue_of_nodes = [i \in 1..Len(queued) |-> queued[i][1]]
  /\ source_of_queued_nodes = [i \in 1..Len(queued) |-> queued[i][2]]
  /\ aux_pending = {queued[i][1] : i \in 1..Len(queued)}
  /\ fast_track_extend_and_evaluate_queue_ = <<>>
  /\ source_of_PVs = <<>>
  /\ thread_counter = started
  /\ vector_of_auxengine_ready_ = [i \in 1..started |-> TRUE]
  /\ helper_running = [i \in 1..started |-> TRUE]
  /\ auxengine_stopped_ = [i \in 1..started |-> TRUE]
  /\ root_has_edges = (Len(queued) > 0)
  /\ pc = [t \in Threads |-> IF t <= started THEN "loop" ELSE "start"]
  /\ our_index = [t \in Threads |-> IF t <= started THEN t - 1 ELSE 0]
  /\ n = [t \in Threads |-> root_node_]
  /\ depth = [t \in Threads |-> 0]
  /\ source = [t \in Threads |-> 0]
  /\ prev_line = [t \in Threads |-> EmptyLine]
  /\ stopping = [t \in Threads |-> FALSE]
  /\ second_stopping = [t \in Threads |-> FALSE]
  /\ pc_enq = "idle"
  /\ enq_n = root_node_
  /\ enq_source = 0
  /\ g_query = [t \in Threads |-> NoQuery]
  /\ g_enq_calls = Len(queued)
  /\ g_helper_lines = 0
  /\ g_sample = NoSample
  /\ g_deferred = {}
  /\ g_moves = 1
  /\ final_purge_run = FALSE
  /\ size_of_queue_at_start = 0
  /\ New_Game = FALSE
  /\ g_purges = 0
  /\ auxengine_num_evals = 0
  /\ evals_read = [t \in Threads |-> 0]

Init == InitRegistered(NThreads, <<>>)


\* ============================================ SearchWorker::AuxMaybeEnqueueNode

\* a variant of EnqueueRefused in which the stop check of line 73 is missing
EnqueueRefused_nocheck == FALSE

\* line 73: the early return
EnqueueRefused == stop_

\* auxengine_cv_.notify_one(): wakes one thread blocked in wait, if there is one;
\* pc1 is pc as the notifying step leaves it
NotifyOne(pc1) ==
  \/ /\ auxengine_cv_ = {}
     /\ auxengine_cv_' = auxengine_cv_
     /\ pc' = pc1
  \/ \E w \in auxengine_cv_ :
       /\ auxengine_cv_' = auxengine_cv_ \ {w}
       /\ pc' = [pc1 EXCEPT ![w] = "wait"]

\* lines 69-75: the call and the stop check; the nodes below the root exist
\* once the root is expanded
EnqCall(nd, src) ==
  /\ pc_enq = "idle"
  /\ root_has_edges
  /\ g_enq_calls < MaxEnqueue
  /\ g_enq_calls' = g_enq_calls + 1
  /\ IF EnqueueRefused
     THEN UNCHANGED enqueuer
     ELSE /\ pc_enq' = "push"
          /\ enq_n' = nd
          /\ enq_source' = src
  /\ UNCHANGED <<shared, locals, g_helper_lines, g_sample, g_deferred, g_moves>>

\* lines 83-87: the critical section
EnqPush ==
  /\ pc_enq = "push"
  /\ auxengine_mutex_ = NoThread
  /\ aux_pending' = aux_pending \cup {enq_n}
  /\ persistent_queue_of_nodes' = QueuePush(persistent_queue_of_nodes, enq_n)
  /\ source_of_queued_nodes' = QueuePush(source_of_queued_nodes, enq_source)
  /\ pc_enq' = "notify"
  /\ UNCHANGED <<stop_, auxengine_mutex_, auxengine_cv_, results, sessions,
                 auxengine_stopped_, root_has_edges, purge_state, eval_stats, locals, enq_n, enq_source,
                 history>>

\* line 88
EnqNotify ==
  /\ pc_enq = "notify"
  /\ NotifyOne(pc)
  /\ pc_enq' = "idle"
  /\ UNCHANGED <<stop_, auxengine_mutex_, queues, results, sessions,
                 auxengine_stopped_, root_has_edges, purge_state, eval_stats, our_index, dae_locals,
                 enq_n, enq_source, history>>

\* ==================================================== Search::AuxEngineWorker
\* a variant of LoopHead: the loop condition does not look at stop_
LoopHead_nostop(t) ==
  /\ pc[t] = "loop"
  /\ pc' = [pc EXCEPT ![t] = IF our_index[t] = 0 THEN "root_check" ELSE "wait"]
  /\ UNCHANGED <<shared, our_index, dae_locals, enqueuer, history>>

\* line 299 and the branch of line 301
LoopHead(t) ==
  /\ pc[t] = "loop"
  /\ pc' = [pc EXCEPT ![t] = IF stop_ THEN "exit"
                             ELSE IF our_index[t] = 0 THEN "root_check"
                             ELSE "wait"]
  /\ UNCHANGED <<shared, our_index, dae_locals, enqueuer, history>>

\* lines 307-311 and 317-320: worker 0 looks at the root
RootCheck(t) ==
  /\ pc[t] = "root_check"
  /\ IF root_has_edges
     THEN /\ aux_pending' = aux_pending \cup {root_node_}
          /\ pc' = [pc EXCEPT ![t] = "root_push"]
     ELSE /\ aux_pending' = aux_pending
          /\ pc' = [pc EXCEPT ![t] = "loop"]
  /\ UNCHANGED <<stop_, auxengine_mutex_, auxengine_cv_, persistent_queue_of_nodes,
                 source_of_queued_nodes, results, sessions, auxengine_stopped_,
                 root_has_edges, purge_state, eval_stats, our_index, dae_locals, enqueuer, history>>

\* lines 312-315: the root-probe tag is pushed and DoAuxEngine(root_node_) called
RootPush(t) ==
  /\ pc[t] = "root_push"
  /\ auxengine_mutex_ = NoThread
  /\ Len(source_of_queued_nodes) < MaxSources
  /\ source_of_queued_nodes' = QueuePush(source_of_queued_nodes, RootProbeSource)
  /\ n' = [n EXCEPT ![t] = root_node_]
  /\ pc' = [pc EXCEPT ![t] = "dae_entry"]
  /\ UNCHANGED <<stop_, auxengine_mutex_, auxengine_cv_, persistent_queue_of_nodes,
                 aux_pending, results, sessions, auxengine_stopped_,
                 root_has_edges, purge_state, eval_stats, our_index, depth, source, prev_line,
                 stopping, second_stopping, g_query, enqueuer, history>>

\* a variant of WaitPredicate: the wait returns on any wake-up
WaitPredicate_always == TRUE

\* line 332: the predicate of the condition wait
WaitPredicate == stop_ \/ Len(persistent_queue_of_nodes) > 0

\* lines 338-339: front() and pop(); front() of an empty queue is undefined
DequeuedNode(q) == IF Len(q) = 0 THEN Garbage ELSE Head(q)
DequeuedRest(q) == Pop(q)

\* lines 330-340: lock, wait for the predicate, then leave on stop or dequeue
TreeWait(t) ==
  /\ pc[t] = "wait"
  /\ auxengine_mutex_ = NoThread
  /\ IF ~WaitPredicate
     THEN /\ auxengine_cv_' = auxengine_cv_ \cup {t}
          /\ pc' = [pc EXCEPT ![t] = "waiting"]
          /\ UNCHANGED <<persistent_queue_of_nodes, n>>
     ELSE IF stop_
     THEN /\ pc' = [pc EXCEPT ![t] = "stop_break"]
          /\ UNCHANGED <<auxengine_cv_, persistent_queue_of_nodes, n>>
     ELSE /\ n' = [n EXCEPT ![t] = DequeuedNode(persistent_queue_of_nodes)]
          /\ persistent_queue_of_nodes' = DequeuedRest(persistent_queue_of_nodes)
          /\ pc' = [pc EXCEPT ![t] = "dae_entry"]
          /\ UNCHANGED auxengine_cv_
  /\ UNCHANGED <<stop_, auxengine_mutex_, source_of_queued_nodes, aux_pending,
                 results, sessions, auxengine_stopped_, root_has_edges, purge_state, eval_stats,
                 our_index, depth, source, prev_line, stopping,
                 second_stopping, g_query, enqueuer, history>>

\* line 332: a blocked thread wakes (notified from outside this file, or spuriously)
\* and evaluates the predicate again
Wake(t) ==
  /\ pc[t] = "waiting"
  /\ auxengine_cv_' = auxengine_cv_ \ {t}
  /\ pc' = [pc EXCEPT ![t] = "wait"]
  /\ UNCHANGED <<stop_, auxengine_mutex_, queues, results, sessions,
                 auxengine_stopped_, root_has_edges, purge_state, eval_stats, our_index, dae_locals,
                 enqueuer, history>>

\* lines 334-340: after auxengine_mutex_.unlock() the unique_lock's destructor
\* unlocks the mutex a second time; that releases it whoever holds it, or does nothing
StopBreak(t) ==
  /\ pc[t] = "stop_break"
  /\ \/ auxengine_mutex_' = NoThread
     \/ auxengine_mutex_' = auxengine_mutex_
  /\ pc' = [pc EXCEPT ![t] = "exit"]
  /\ UNCHANGED <<stop_, auxengine_cv_, queues, results, sessions,
                 auxengine_stopped_, root_has_edges, purge_state, eval_stats, our_index, dae_locals,
                 enqueuer, history>>

\* lines 346-349
Exit(t) ==
  /\ pc[t] = "exit"
  /\ auxengine_mutex_ = NoThread
  /\ thread_counter' = thread_counter - 1
  /\ pc' = [pc EXCEPT ![t] = "done"]
  /\ UNCHANGED <<stop_, auxengine_mutex_, auxengine_cv_, queues, results,
                 vector_of_auxengine_ready_, helper_running,
                 auxengine_stopped_, root_has_edges, purge_state, eval_stats, our_index, dae_locals,
                 enqueuer, history>>

\* ========================================================= Search::DoAuxEngine
\* a return from DoAuxEngine: its locals die, the worker is back at line 299;
\* pc1 is pc as the returning step leaves it otherwise
LocalsDie(t) ==
  /\ n' = [n EXCEPT ![t] = root_node_]
  /\ depth' = [depth EXCEPT ![t] = 0]
  /\ source' = [source EXCEPT ![t] = 0]
  /\ prev_line' = [prev_line EXCEPT ![t] = EmptyLine]
  /\ stopping' = [stopping EXCEPT ![t] = FALSE]
  /\ second_stopping' = [second_stopping EXCEPT ![t] = FALSE]
  /\ g_query' = [g_query EXCEPT ![t] = NoQuery]

Returned(t, pc1) ==
  /\ pc' = [pc1 EXCEPT ![t] = "loop"]
  /\ LocalsDie(t)

\* lines 461-484: the stop checks and the depth of the node
DaeEntry(t) ==
  /\ pc[t] = "dae_entry"
  /\ IF stop_
     THEN Returned(t, pc)
     ELSE /\ depth' = [depth EXCEPT ![t] = DepthFromRoot(n[t])]
          /\ pc' = [pc EXCEPT ![t] = "admission"]
          /\ UNCHANGED <<n, source, prev_line, stopping, second_stopping,
                         g_query>>
  /\ UNCHANGED <<shared, our_index, enqueuer, history>>

\* a variant of Throttled: the comparison of the draw with 1/depth is reversed
Throttled_reversed(d, smp) ==
  /\ d > 0
  /\ d > AuxEngineMaxDepth
  /\ smp[2] > smp[1] * d

\* lines 493-495: the node is deep and the draw exceeds 1/depth;
\* smp is the fraction smp[1]/smp[2]
Throttled(d, smp) ==
  /\ d > 0
  /\ d > AuxEngineMaxDepth
  /\ smp[2] < smp[1] * d

\* a variant of Deferred: a deep node is always re-queued, whatever the queue and the draw
Deferred_always(q, d, smp) == d > 0 /\ d > AuxEngineMaxDepth

\* lines 491-495
Deferred(q, d, smp) == Len(q) > 0 /\ Throttled(d, smp)

\* lines 497-500: the tag pushed with a re-queued node
RequeuedSource(sq) == Front(sq)
\* a variant of SourcesAfterRequeue: the tag is popped and not pushed again
SourcesAfterRequeue_drop(sq) == Pop(sq)

SourcesAfterRequeue(sq) == QueuePush(Pop(sq), RequeuedSource(sq))

\* a variant of QueueAfterRequeue: the deferred node goes to the front
QueueAfterRequeue_front(q, nd) == <<nd>> \o q

\* line 499: the deferred node is pushed
QueueAfterRequeue(q, nd) == QueuePush(q, nd)

\* lines 490-506: the admission check, one critical section; the draw smp is
\* made only when the Work Queue is not empty
Admission(t, smp) ==
  /\ pc[t] = "admission"
  /\ auxengine_mutex_ = NoThread
  /\ IF Len(persistent_queue_of_nodes) > 0
     THEN smp \in Samples /\ g_sample' = smp
     ELSE smp = NoSample /\ g_sample' = g_sample
  /\ IF Deferred(persistent_queue_of_nodes, depth[t], smp)
     THEN /\ persistent_queue_of_nodes' = QueueAfterRequeue(persistent_queue_of_nodes, n[t])
          /\ source_of_queued_nodes' = SourcesAfterRequeue(source_of_queued_nodes)
          /\ NotifyOne([pc EXCEPT ![t] = "loop"])
          /\ LocalsDie(t)
          /\ g_deferred' = g_deferred \cup {n[t]}
     ELSE /\ pc' = [pc EXCEPT ![t] = "pre_query"]
          /\ g_deferred' = g_deferred \ {n[t]}
          /\ UNCHANGED <<auxengine_cv_, persistent_queue_of_nodes,
                         source_of_queued_nodes, dae_locals>>
  /\ UNCHANGED <<stop_, auxengine_mutex_, aux_pending, results, sessions,
                 auxengine_stopped_, root_has_edges, purge_state, eval_stats, our_index, enqueuer,
                 g_enq_calls, g_helper_lines, g_moves>>


\* lines 525-582: the last stop checks, then position and go are written to the
\* helper and the session's stopped latch is cleared
StartQuery(t) ==
  /\ pc[t] = "pre_query"
  /\ IF stop_
     THEN /\ Returned(t, pc)
          /\ auxengine_stopped_' = auxengine_stopped_
     ELSE /\ auxengine_stopped_' = [auxengine_stopped_ EXCEPT ![our_index[t] + 1] = FALSE]
          /\ pc' = [pc EXCEPT ![t] = "read"]
          /\ UNCHANGED dae_locals
  /\ UNCHANGED <<stop_, auxengine_mutex_, auxengine_cv_, queues, results, sessions,
                 root_has_edges, purge_state, eval_stats, our_index, enqueuer, history>>

\* lines 600-612: a bestmove line whose next token is not info ends the loop
IsTerminal(ln) == Len(ln) >= 1 /\ ln[1] = "bestmove" /\ (Len(ln) < 2 \/ ln[2] # "info")
\* lines 602-608: the malformed bestmove line, answered with stop
IsMalformed(ln) == Len(ln) >= 2 /\ ln[1] = "bestmove" /\ ln[2] = "info"
\* the value of token at line 634
TokenAfter(ln) == IF IsMalformed(ln) THEN ln[2] ELSE ln[1]

\* a variant of SendsSignalStop: stop is sent on the first line of a query,
\* whether or not the search has stopped
SendsSignalStop_unasked(t) == ~stopping[t] /\ ~auxengine_stopped_[our_index[t] + 1]

\* lines 616-631: stop is sent for the stop signal when the worker first sees it
\* and the latch is clear
SendsSignalStop(t) == ~stopping[t] /\ stop_ /\ ~auxengine_stopped_[our_index[t] + 1]

\* a variant of SendsAnomalyStop: the second_stopping latch is not consulted
SendsAnomalyStop_nolatch(t) == stopping[t]

\* lines 644-651: stop is sent again on the first line read after that
SendsAnomalyStop(t) == stopping[t] /\ ~second_stopping[t]

\* a variant of DecodesInfo: info lines are decoded whether or not the search has stopped
DecodesInfo_always(t, ln) == TokenAfter(ln) = "info"

\* lines 633-641: the line is decoded and published while the query runs
DecodesInfo(t, ln) == ~stopping[t] /\ ~stop_ /\ TokenAfter(ln) = "info"

\* line 592, getline fails: the helper's stream ends, or has ended before
ReadEnd(t) ==
  /\ pc[t] = "read"
  /\ helper_running' = [helper_running EXCEPT ![our_index[t] + 1] = FALSE]
  /\ pc' = [pc EXCEPT ![t] = "after_loop"]
  /\ UNCHANGED <<stop_, auxengine_mutex_, auxengine_cv_, queues, results,
                 thread_counter, vector_of_auxengine_ready_, auxengine_stopped_,
                 root_has_edges, purge_state, eval_stats, our_index, dae_locals, enqueuer, history>>

\* what one iteration of the read loop adds to the record of the query
QueryAfterLine(t, ln) ==
  [g_query[t] EXCEPT
     !.lines = @ + 1,
     !.stop_malformed = @ + (IF IsMalformed(ln) THEN 1 ELSE 0),
     !.stop_signal = @ + (IF SendsSignalStop(t) THEN 1 ELSE 0),
     !.stop_anomaly = @ + (IF SendsAnomalyStop(t) THEN 1 ELSE 0),
     !.latch_at_signal = IF ~stopping[t] /\ stop_
                         THEN auxengine_stopped_[our_index[t] + 1] ELSE @]

\* lines 592-653: one line is read from the helper; a well-formed bestmove
\* leaves the loop, any other line is one iteration of it
ReadLine(t, ln) ==
  /\ pc[t] = "read"
  /\ helper_running[our_index[t] + 1]
  /\ IF IsTerminal(ln)
     THEN /\ pc' = [pc EXCEPT ![t] = "after_loop"]
          /\ UNCHANGED <<auxengine_stopped_, dae_locals, g_helper_lines>>
     ELSE /\ g_helper_lines < MaxHelperLines
          /\ g_helper_lines' = g_helper_lines + 1
          /\ prev_line' = [prev_line EXCEPT ![t] = ln]
          /\ stopping' = [stopping EXCEPT ![t] = stopping[t] \/ stop_]
          /\ second_stopping' = [second_stopping EXCEPT ![t] = @ \/ SendsAnomalyStop(t)]
          /\ auxengine_stopped_' =
               [auxengine_stopped_ EXCEPT ![our_index[t] + 1] = @ \/ SendsSignalStop(t)]
          /\ pc' = [pc EXCEPT ![t] = IF DecodesInfo(t, ln) THEN "info_source" ELSE "read"]
          /\ g_query' = [g_query EXCEPT ![t] = QueryAfterLine(t, ln)]
          /\ UNCHANGED <<n, depth, source>>
  /\ UNCHANGED <<stop_, auxengine_mutex_, auxengine_cv_, queues, results, sessions,
                 root_has_edges, purge_state, eval_stats, our_index, enqueuer, g_enq_calls, g_sample,
                 g_deferred, g_moves>>

\* lines 637-638 and 682-683: the tag of a line is the front of the source-tag queue
TagForLine(sq) == Front(sq)

\* lines 636-639
InfoSource(t) ==
  /\ pc[t] = "info_source"
  /\ auxengine_mutex_ = NoThread
  /\ source' = [source EXCEPT ![t] = TagForLine(source_of_queued_nodes)]
  /\ pc' = [pc EXCEPT ![t] = "encode_info"]
  /\ UNCHANGED <<shared, our_index, n, depth, prev_line, stopping,
                 second_stopping, g_query, enqueuer, history>>

\* lines 654-680: after the loop, up to the load of auxengine_num_evals++ (the
\* statistics are updated without a lock)
AfterLoop(t) ==
  /\ pc[t] = "after_loop"
  /\ IF stopping[t]
     THEN /\ Returned(t, pc)
          /\ UNCHANGED <<auxengine_stopped_, evals_read>>
     ELSE /\ auxengine_stopped_' = [auxengine_stopped_ EXCEPT ![our_index[t] + 1] = TRUE]
          /\ IF prev_line[t] = EmptyLine
             THEN Returned(t, pc) /\ UNCHANGED evals_read
             ELSE IF helper_running[our_index[t] + 1]
             THEN /\ pc' = [pc EXCEPT ![t] = "count_eval"]
                  /\ evals_read' = [evals_read EXCEPT ![t] = auxengine_num_evals]
                  /\ UNCHANGED dae_locals
             ELSE /\ pc' = [pc EXCEPT ![t] = "died"]
                  /\ UNCHANGED <<dae_locals, evals_read>>
  /\ UNCHANGED <<stop_, auxengine_mutex_, auxengine_cv_, queues, results, sessions,
                 root_has_edges, purge_state, auxengine_num_evals, our_index,
                 enqueuer, history>>

\* line 680, the store of auxengine_num_evals++
CountEval(t) ==
  /\ pc[t] = "count_eval"
  /\ auxengine_num_evals' = evals_read[t] + 1
  /\ evals_read' = [evals_read EXCEPT ![t] = 0]
  /\ pc' = [pc EXCEPT ![t] = "final_source"]
  /\ UNCHANGED <<stop_, auxengine_mutex_, auxengine_cv_, queues, results, sessions,
                 auxengine_stopped_, root_has_edges, purge_state, our_index,
                 dae_locals, enqueuer, history>>

\* lines 681-685: the tag for the final line is read and popped
FinalSource(t) ==
  /\ pc[t] = "final_source"
  /\ auxengine_mutex_ = NoThread
  /\ source' = [source EXCEPT ![t] = TagForLine(source_of_queued_nodes)]
  /\ source_of_queued_nodes' = Pop(source_of_queued_nodes)
  /\ pc' = [pc EXCEPT ![t] = "encode_final"]
  /\ UNCHANGED <<stop_, auxengine_mutex_, auxengine_cv_, persistent_queue_of_nodes,
                 aux_pending, results, sessions, auxengine_stopped_,
                 root_has_edges, purge_state, eval_stats, our_index, n, depth, prev_line, stopping,
                 second_stopping, g_query, enqueuer, history>>


\* ============================================== Search::AuxEncode_and_Enqueue
\* my_moves_from_the_white_side at line 450: the path to the node, then the PV
EncodedEntry(t, require_some_depth) ==
  PathFromRoot(n[t]) \o DecodePV(prev_line[t], depth[t], require_some_depth)

\* line 436
Publishes(t, require_some_depth) ==
  Len(DecodePV(prev_line[t], depth[t], require_some_depth)) > 0

\* lines 362-451: the line is decoded; a non-empty PV is pushed onto the Result
\* Queue under fast_track_extend_and_evaluate_queue_mutex_
Encode(t) ==
  /\ pc[t] \in {"encode_info", "encode_final"}
  /\ LET req == (pc[t] = "encode_info") IN
     IF Publishes(t, req)
     THEN /\ fast_track_extend_and_evaluate_queue_' =
               QueuePush(fast_track_extend_and_evaluate_queue_, EncodedEntry(t, req))
          /\ pc' = [pc EXCEPT ![t] = IF req THEN "publish_info" ELSE "publish_final"]
          /\ g_query' = [g_query EXCEPT ![t].pushed = @ + 1]
          /\ UNCHANGED <<n, depth, source, prev_line, stopping, second_stopping>>
     ELSE IF req
     THEN /\ pc' = [pc EXCEPT ![t] = "read"]
          /\ UNCHANGED <<fast_track_extend_and_evaluate_queue_, dae_locals>>
     ELSE /\ Returned(t, pc)
          /\ UNCHANGED fast_track_extend_and_evaluate_queue_
  /\ UNCHANGED <<stop_, auxengine_mutex_, auxengine_cv_, queues, source_of_PVs,
                 sessions, auxengine_stopped_, root_has_edges, purge_state, eval_stats, our_index,
                 enqueuer, history>>

\* lines 452-454: the tag is pushed onto the provenance queue, a second critical
\* section, and AuxEncode_and_Enqueue returns
PublishSource(t) ==
  /\ pc[t] \in {"publish_info", "publish_final"}
  /\ auxengine_mutex_ = NoThread
  /\ source_of_PVs' = QueuePush(source_of_PVs, source[t])
  /\ IF pc[t] = "publish_info"
     THEN /\ pc' = [pc EXCEPT ![t] = "read"]
          /\ UNCHANGED dae_locals
     ELSE Returned(t, pc)
  /\ UNCHANGED <<stop_, auxengine_mutex_, auxengine_cv_, queues,
                 fast_track_extend_and_evaluate_queue_, sessions,
                 auxengine_stopped_, root_has_edges, purge_state, eval_stats, our_index, enqueuer, history>>

\* ================================================================ environment
\* the primary search sets the stop flag (read at lines 73, 298, 332, 461, 617)
SetStop ==
  /\ ~stop_
  /\ stop_' = TRUE
  /\ UNCHANGED <<auxengine_mutex_, auxengine_cv_, queues, results, sessions,
                 auxengine_stopped_, root_has_edges, purge_state, eval_stats, locals, enqueuer, history>>

\* the primary search, having stopped, sends stop to a helper whose latch is
\* clear and sets the latch ("unless someone else already has sent stop", line 620)
MaybeTriggerStop(i) ==
  /\ stop_
  /\ i <= Len(auxengine_stopped_)
  /\ ~auxengine_stopped_[i]
  /\ auxengine_stopped_' = [auxengine_stopped_ EXCEPT ![i] = TRUE]
  /\ UNCHANGED <<stop_, auxengine_mutex_, auxengine_cv_, queues, results, sessions,
                 root_has_edges, purge_state, eval_stats, locals, enqueuer, history>>

\* the primary search expands the root (read at line 307)
ExpandRoot ==
  /\ ~root_has_edges
  /\ root_has_edges' = TRUE
  /\ UNCHANGED <<stop_, auxengine_mutex_, auxengine_cv_, queues, results, sessions,
                 auxengine_stopped_, purge_state, eval_stats, locals, enqueuer, history>>

\* the exception of line 673 leaves the thread function: the process terminates
Terminated == \E t \in Threads : pc[t] = "died"
Running == ~Terminated

\* ============================================================ specifications
\* The steps every specification has: the primary search and the worker loop.
PoolStep ==
  \/ \E e \in EnqueueInputs : EnqCall(e[1], e[2])
  \/ EnqPush
  \/ EnqNotify
  \/ \E t \in Threads : LoopHead(t)
  \/ \E t \in Threads : RootCheck(t)
  \/ \E t \in Threads : RootPush(t)
  \/ \E t \in Threads : TreeWait(t)
  \/ \E t \in Threads : Wake(t)
  \/ \E t \in Threads : StopBreak(t)
  \/ \E t \in Threads : Exit(t)
  \/ \E t \in Threads : DaeEntry(t)
  \/ \E t \in Threads, smp \in Samples \cup {NoSample} : Admission(t, smp)
  \/ \E t \in Threads : StartQuery(t)
  \/ \E t \in Threads : AfterLoop(t)
  \/ SetStop
  \/ ExpandRoot

\* The Work Queue under load: three registered workers whose helpers answer
\* every query with a bestmove line.
NextQ ==
  \/ PoolStep
  \/ \E t \in Threads : ReadLine(t, L_bestmove)

SpecQ == Init /\ [][NextQ]_vars


\* a helper that was sent `go movetime` answers with a bestmove line
HelperReplies(t) == our_index[t] >= 1 /\ ReadLine(t, L_bestmove)

\* The helper protocol: worker 0 and one tree-consumer worker are registered and
\* one task is queued; worker 0's helper may emit any line at any time, the
\* other helper answers every query with a bestmove line, either may end its
\* stream, and the primary search may send stop itself once the search has stopped.
NextP ==
  \/ \E t \in Threads : Running /\ LoopHead(t)
  \/ \E t \in Threads : Running /\ RootCheck(t)
  \/ \E t \in Threads : Running /\ RootPush(t)
  \/ \E t \in Threads : Running /\ TreeWait(t)
  \/ \E t \in Threads : Running /\ Wake(t)
  \/ \E t \in Threads : Running /\ StopBreak(t)
  \/ \E t \in Threads : Running /\ Exit(t)
  \/ \E t \in Threads : Running /\ DaeEntry(t)
  \/ \E t \in Threads, smp \in Samples \cup {NoSample} : Running /\ Admission(t, smp)
  \/ \E t \in Threads : Running /\ StartQuery(t)
  \/ \E t \in Threads, ln \in HelperLines : Running /\ our_index[t] = 0 /\ ReadLine(t, ln)
  \/ \E t \in Threads : Running /\ HelperReplies(t)
  \/ \E t \in Threads : Running /\ ReadEnd(t)
  \/ \E t \in Threads : Running /\ InfoSource(t)
  \/ \E t \in Threads : Running /\ AfterLoop(t)
  \/ \E t \in Threads : Running /\ CountEval(t)
  \/ \E t \in Threads : Running /\ FinalSource(t)
  \/ \E t \in Threads : Running /\ Encode(t)
  \/ \E t \in Threads : Running /\ PublishSource(t)
  \/ Running /\ SetStop
  \/ \E i \in 1..NThreads : Running /\ MaybeTriggerStop(i)

InitP == InitRegistered(2, << <<"b", 1>> >>)
SpecP == InitP /\ [][NextP]_vars


\* Progress of the admission check: two tasks for the same deep node are queued
\* (with tags 2 and 1),
\* worker 0's helper analyses the root without end, the other helpers answer
\* every query.  Every worker thread keeps running (weak fairness), a helper
\* that was sent `go movetime` answers (weak fairness), and the draw does not
\* refuse admission forever (strong fairness on the admitting outcome).
AdmitStep(t) ==
  \E smp \in Samples \cup {NoSample} : Admission(t, smp) /\ pc'[t] = "pre_query"

WorkerStep(t) ==
  \/ LoopHead(t)
  \/ RootCheck(t)
  \/ RootPush(t)
  \/ TreeWait(t)
  \/ StopBreak(t)
  \/ Exit(t)
  \/ DaeEntry(t)
  \/ \E smp \in Samples \cup {NoSample} : Admission(t, smp)
  \/ StartQuery(t)
  \/ AfterLoop(t)

NextL ==
  \/ \E t \in Threads : WorkerStep(t)
  \/ \E t \in Threads : Wake(t)
  \/ \E t \in Threads : HelperReplies(t)
  \/ SetStop

InitL == InitRegistered(NThreads, << <<"c", 2>>, <<"c", 1>> >>)

FairL ==
  \A t \in Threads :
    /\ WF_vars(WorkerStep(t))
    /\ WF_vars(HelperReplies(t))
    /\ SF_vars(AdmitStep(t))

SpecL == InitL /\ [][NextL]_vars /\ FairL

\* =================================================================== claims
\* the last element of a queue
Back(q) == q[Len(q)]

\* the tag a task was created with: the root probe's, or the source argument of
\* the AuxMaybeEnqueueNode call that queued the node
TagOf(nd) ==
  IF nd = root_node_ THEN RootProbeSource
  ELSE (CHOOSE e \in EnqueueInputs : e[1] = nd)[2]

\* the steps the claims speak about, as pairs of states
EnqCalled == pc_enq = "idle" /\ g_enq_calls' = g_enq_calls + 1
EnqPushed == pc_enq = "push" /\ pc_enq' = "notify"
EnqNotified == pc_enq = "notify" /\ pc_enq' = "idle"
Dequeues(t) == pc[t] = "wait" /\ pc'[t] = "dae_entry"
Requeues(t) == pc[t] = "admission" /\ pc'[t] = "loop"
Admits(t) == pc[t] = "admission" /\ pc'[t] = "pre_query"

\* C1: a call of AuxMaybeEnqueueNode made while the stop flag is set changes
\* neither queue, nor the pending markers, nor any waiter; a call made while it
\* is clear marks the node pending and appends the node at the back of the Work
\* Queue and its source at the back of the source-tag queue in one step taken
\* with the coordination lock free, and then wakes exactly one waiter if there
\* is one.
C1_EnqueueEffect ==
  [][ /\ (EnqCalled /\ stop_) =>
           /\ UNCHANGED <<queues, auxengine_cv_, auxengine_mutex_, pc, enqueuer>>
      /\ (EnqCalled /\ ~stop_) =>
           /\ pc_enq' = "push"
           /\ <<enq_n', enq_source'>> \in EnqueueInputs
           /\ UNCHANGED <<queues, auxengine_cv_, pc>>
      /\ EnqPushed =>
           /\ auxengine_mutex_ = NoThread
           /\ aux_pending' = aux_pending \cup {enq_n}
           /\ persistent_queue_of_nodes' = Append(persistent_queue_of_nodes, enq_n)
           /\ source_of_queued_nodes' = Append(source_of_queued_nodes, enq_source)
           /\ UNCHANGED <<auxengine_cv_, pc>>
      /\ EnqNotified =>
           /\ UNCHANGED queues
           /\ IF auxengine_cv_ = {}
              THEN UNCHANGED <<auxengine_cv_, pc>>
              ELSE \E w \in auxengine_cv_ :
                     /\ auxengine_cv_' = auxengine_cv_ \ {w}
                     /\ pc' = [pc EXCEPT ![w] = "wait"]
    ]_vars

\* C1 witness: a node and its tag have been appended behind an earlier entry
\* and a blocked worker is about to be signalled
C1_Witness ==
  /\ pc_enq = "notify"
  /\ auxengine_cv_ # {}
  /\ Len(persistent_queue_of_nodes) = 1
  /\ Back(persistent_queue_of_nodes) = enq_n
  /\ Len(source_of_queued_nodes) > 1
  /\ Back(source_of_queued_nodes) = enq_source
  /\ enq_n \in aux_pending


\* C2: a tree-consumer worker (index >= 1) that dequeues finds the Work Queue
\* non-empty, is handed exactly its front entry, and removes exactly that entry,
\* so that no entry is handed out twice; no other worker receives anything in
\* that step, and no worker ever carries a node that was not in the queue.
C2_DequeueOnce ==
  /\ [](\A t \in Threads : n[t] # Garbage)
  /\ [][\A t \in Threads : Dequeues(t) =>
          /\ our_index[t] >= 1
          /\ Len(persistent_queue_of_nodes) > 0
          /\ n'[t] = Head(persistent_queue_of_nodes)
          /\ persistent_queue_of_nodes' = Tail(persistent_queue_of_nodes)
          /\ \A u \in Threads \ {t} : n'[u] = n[u] /\ pc'[u] = pc[u]
     ]_vars

\* C2 witness: two tree-consumer workers hold the two entries that were queued,
\* one each, and the queue is empty
C2_Witness ==
  \E t, u \in Threads :
    /\ t # u
    /\ our_index[t] >= 1 /\ our_index[u] >= 1
    /\ pc[t] = "dae_entry" /\ pc[u] = "dae_entry"
    /\ n[t] = "b" /\ n[u] = "c"
    /\ persistent_queue_of_nodes = <<>>
    /\ g_enq_calls = 2

\* C3: the Work Queue changes only by removing its front entry, which is the
\* entry handed to the dequeuing worker, or by appending at its back; a task
\* deferred by the admission check is appended behind every queued entry.
C3_FifoOrder ==
  [][ /\ persistent_queue_of_nodes' # persistent_queue_of_nodes =>
           \/ /\ persistent_queue_of_nodes # <<>>
              /\ persistent_queue_of_nodes' = Tail(persistent_queue_of_nodes)
              /\ \E t \in Threads :
                   Dequeues(t) /\ n'[t] = Head(persistent_queue_of_nodes)
           \/ /\ EnqPushed
              /\ persistent_queue_of_nodes' = Append(persistent_queue_of_nodes, enq_n)
           \/ \E t \in Threads :
                /\ Requeues(t)
                /\ persistent_queue_of_nodes' = Append(persistent_queue_of_nodes, n[t])
      /\ \A t \in Threads : Requeues(t) =>
           /\ Len(persistent_queue_of_nodes) > 0
           /\ persistent_queue_of_nodes' = Append(persistent_queue_of_nodes, n[t])
    ]_vars

\* C3 witness: a deferred task sits at the back of the queue behind the entry
\* that was queued when it was deferred
C3_Witness ==
  /\ persistent_queue_of_nodes = <<"b", "c">>
  /\ "c" \in g_deferred

\* C4: the admission check re-queues the task exactly when the Work Queue is
\* not empty, the task's depth from the root is positive and above the
\* configured maximum, and the draw exceeds 1/depth; otherwise the task goes on
\* to analysis and the queues are left as they were.
C4_AdmissionRule ==
  [][\A t \in Threads : pc[t] = "admission" /\ pc'[t] # "admission" =>
       LET d == DepthFromRoot(n[t])
           deferred == /\ Len(persistent_queue_of_nodes) > 0
                       /\ d > 0
                       /\ d > AuxEngineMaxDepth
                       /\ g_sample'[1] * d > g_sample'[2]
       IN /\ Len(persistent_queue_of_nodes) > 0 => g_sample' \in Samples
          /\ IF deferred
             THEN Requeues(t)
             ELSE /\ Admits(t)
                  /\ n'[t] = n[t]
                  /\ UNCHANGED queues
     ]_vars

\* C4 witness: a task of depth 2, not above the maximum, was admitted with a
\* draw above 1/depth while another task was queued
C4_Witness ==
  \E t \in Threads :
    /\ pc[t] = "pre_query"
    /\ n[t] = "b"
    /\ g_sample = <<3, 4>>
    /\ persistent_queue_of_nodes = <<"c">>


\* C5: the entry the admission check re-appends pairs the deferred node with the
\* tag the node was queued with.
C5_RequeueKeepsTag ==
  [][\A t \in Threads : Requeues(t) =>
       /\ Back(persistent_queue_of_nodes') = n[t]
       /\ Back(source_of_queued_nodes') = TagOf(n[t])
    ]_vars


\* the stop commands a worker has written to its helper in its current query
StopsSent(t) ==
  g_query[t].stop_signal + g_query[t].stop_anomaly + g_query[t].stop_malformed

\* C7 as stated: whatever lines the helper emits, a query sends at most two stop
\* commands, one for the stop signal and one for a missing bestmove.
C7_AtMostTwoStops == \A t \in Threads : StopsSent(t) <= 2

\* C7 amended: in one query stop is sent for the stop signal only at the first
\* observation of the signal, exactly once if the stopped latch is clear then
\* and not at all if it is set; at most one more stop is sent for a later line
\* that is not the terminating bestmove, and second_stopping records it; every
\* further stop answers a malformed bestmove line, one per such line.
C7_StopLatches ==
  \A t \in Threads :
    /\ g_query[t].stop_signal =
         (IF stopping[t] /\ ~g_query[t].latch_at_signal THEN 1 ELSE 0)
    /\ g_query[t].stop_anomaly = (IF second_stopping[t] THEN 1 ELSE 0)
    /\ second_stopping[t] => stopping[t] /\ g_query[t].lines >= 2
    /\ g_query[t].stop_malformed <= g_query[t].lines
    /\ g_query[t].stop_malformed > 0 => IsMalformed(prev_line[t]) \/ g_query[t].lines >= 2
    /\ StopsSent(t) <= 2 + g_query[t].stop_malformed

\* C7 witness: the signal was observed with the latch clear, one stop was sent
\* for it and one more for the next line, which was not a bestmove; a third
\* line has been read since and no further stop was sent
C7_Witness ==
  \E t \in Threads :
    /\ pc[t] = "read"
    /\ g_query[t].lines = 3
    /\ second_stopping[t]
    /\ g_query[t].stop_signal = 1
    /\ g_query[t].stop_anomaly = 1
    /\ g_query[t].stop_malformed = 0

\* C8: a query whose worker has observed the stop signal pushes nothing onto the
\* Result Queue any more: the worker only reads on to the bestmove and returns,
\* and every push is made by a worker that has not observed the signal.
C8_NoPublishAfterStop ==
  /\ [](\A t \in Threads : stopping[t] => pc[t] \in {"read", "after_loop"})
  /\ [][ /\ \A t \in Threads : stopping[t] =>
              /\ g_query'[t].pushed <= g_query[t].pushed
              /\ pc[t] = "after_loop" /\ pc'[t] # pc[t] => pc'[t] = "loop"
         /\ results' # results =>
              \E t \in Threads :
                /\ ~stopping[t]
                /\ pc[t] \in {"encode_info", "encode_final", "publish_info", "publish_final"}
    ]_vars

\* C8 witness: a query that published one incremental line has observed the stop
\* signal and has read the bestmove; it is about to return
C8_Witness ==
  \E t \in Threads :
    /\ pc[t] = "after_loop"
    /\ stopping[t]
    /\ g_query[t].pushed = 1
    /\ Len(fast_track_extend_and_evaluate_queue_) = 1

\* C9: an unstopped query whose helper emitted only the line `info depth 20 pv
\* e2e4 e7e5` before its bestmove has, when it ends, pushed exactly one entry,
\* the path to the node followed by the two moves of the PV.
C9_OneEntryPerPV ==
  \A t \in Threads :
    (/\ pc[t] = "publish_final"
     /\ ~stopping[t]
     /\ g_query[t].lines = 1
     /\ prev_line[t] = L_info20)
    => /\ g_query[t].pushed = 1
       /\ Len(Back(fast_track_extend_and_evaluate_queue_)) = Len(PathFromRoot(n[t])) + 2

\* C10: the tag pushed with a line onto the provenance queue is the tag of the
\* task whose query produced the line; for worker 0's root query it is 3.
C10_TagOfTask ==
  \A t \in Threads :
    pc[t] \in {"publish_info", "publish_final"} => source[t] = TagOf(n[t])


\* every task that was queued has passed the admission check
AllAdmitted ==
  /\ persistent_queue_of_nodes = <<>>
  /\ \A t \in Threads : our_index[t] >= 1 => pc[t] \notin {"dae_entry", "admission"}
  /\ g_deferred = {}

\* C6: while the stop signal is not set and the draw does not refuse admission
\* forever, a task that the admission check has re-queued is eventually
\* admitted: from any state with a deferred task the pool reaches a state in
\* which every queued task has been admitted, or the search is stopped.
C6_DeferredEventuallyAdmitted == (g_deferred # {}) ~> (stop_ \/ AllAdmitted)

\* C6 witness: the search is not stopped and both tasks have been admitted, one
\* of them after it was deferred (the re-queue moved tag 2 behind tag 1)
C6_Witness ==
  /\ ~stop_
  /\ AllAdmitted
  /\ \E i, j \in 1..Len(source_of_queued_nodes) :
       i < j /\ source_of_queued_nodes[i] = 1 /\ source_of_queued_nodes[j] = 2


\* ============================================================ publication
\* a helper that was sent `go movetime` reports a line of its search
HelperReports(t) == our_index[t] >= 1 /\ ReadLine(t, L_info20)

\* Two tree-consumer workers publish side by side: tasks for the nodes b and c
\* are queued, each helper that was sent `go movetime` reports one or more info
\* lines and then its bestmove; worker 0's helper analyses the root in silence.
NextB ==
  \/ \E t \in Threads : LoopHead(t)
  \/ \E t \in Threads : RootCheck(t)
  \/ \E t \in Threads : RootPush(t)
  \/ \E t \in Threads : TreeWait(t)
  \/ \E t \in Threads : Wake(t)
  \/ \E t \in Threads : DaeEntry(t)
  \/ \E t \in Threads, smp \in Samples \cup {NoSample} : Admission(t, smp)
  \/ \E t \in Threads : StartQuery(t)
  \/ \E t \in Threads : HelperReports(t)
  \/ \E t \in Threads : HelperReplies(t)
  \/ \E t \in Threads : InfoSource(t)
  \/ \E t \in Threads : AfterLoop(t)
  \/ \E t \in Threads : CountEval(t)
  \/ \E t \in Threads : FinalSource(t)
  \/ \E t \in Threads : Encode(t)
  \/ \E t \in Threads : PublishSource(t)

InitB == InitRegistered(NThreads, << <<"b", 1>>, <<"c", 2>> >>)
SpecB == InitB /\ [][NextB]_vars

\* the step in which a worker pushes the tag of the line it is publishing
PushesTag(t) == pc[t] \in {"publish_info", "publish_final"} /\ pc'[t] # pc[t]

\* C11: the tag of a published line lands in the provenance queue at the
\* position its move sequence has in the Result Queue: when a worker pushes the
\* tag as the i-th entry of the provenance queue, the i-th entry of the Result
\* Queue is the move sequence that worker pushed for the line.
C11_PairedQueues ==
  [][\A t \in Threads :
       PushesTag(t) =>
         /\ Len(source_of_PVs') <= Len(fast_track_extend_and_evaluate_queue_)
         /\ fast_track_extend_and_evaluate_queue_[Len(source_of_PVs')] =
              EncodedEntry(t, pc[t] = "publish_info")]_vars


\* ============================================ registration, lines 97-295
\* the marker stored with a task that was queued under an earlier root
old_root_ == "o"

\* line 110-115: the session of this index has to be started
FirstUse(idx) ==
  IF idx + 1 > Len(vector_of_auxengine_ready_) THEN TRUE
  ELSE ~vector_of_auxengine_ready_[idx + 1]

\* lines 228-237: the loop over size_of_queue_at_start, two pops per round; q is
\* what is left of the Work Queue, temp is persistent_queue_of_nodes_temp_.
\* front() of an empty queue is undefined: junk_is_root says whether the value
\* read as n_parent compares equal to root_node_.  Lines 239-243 then push temp.
RECURSIVE PurgeLoop(_, _, _, _, _)
PurgeLoop(q, i, size, temp, junk_is_root) ==
  IF i >= size THEN q \o temp
  ELSE LET nd == DequeuedNode(q)
           q1 == Pop(q)
           n_parent == DequeuedNode(q1)
           q2 == Pop(q1)
           relevant == IF n_parent = Garbage THEN junk_is_root
                       ELSE n_parent = root_node_
       IN PurgeLoop(q2, i + 2, size,
                    IF relevant THEN Append(temp, nd) ELSE temp, junk_is_root)

\* a variant of Purge: every node is kept, whatever its marker
Purge_all(q, size, junk_is_root) == [k \in 1..(size \div 2) |-> q[2 * k - 1]]

\* lines 225-248
Purge(q, size, junk_is_root) == PurgeLoop(q, 0, size, <<>>, junk_is_root)

\* lines 222 and 225: the purge of the Work Queue runs
PurgeRuns(latch, size) == ~latch /\ size > 0

\* lines 97-153: the lock is taken, the index read; on first use of the index the
\* helper is started, the session's entries are pushed and `uci` is sent.  The
\* worker then reads the helper's answer with the lock held.
RegisterInit(t) ==
  /\ pc[t] = "start"
  /\ auxengine_mutex_ = NoThread
  /\ FirstUse(thread_counter)
  /\ auxengine_mutex_' = t
  /\ our_index' = [our_index EXCEPT ![t] = thread_counter]
  /\ vector_of_auxengine_ready_' = Append(vector_of_auxengine_ready_, FALSE)
  /\ helper_running' = [Append(helper_running, FALSE) EXCEPT ![thread_counter + 1] = TRUE]
  /\ auxengine_stopped_' = Append(auxengine_stopped_, TRUE)
  /\ pc' = [pc EXCEPT ![t] = "handshake"]
  /\ UNCHANGED <<stop_, auxengine_cv_, queues, results, thread_counter,
                 root_has_edges, purge_state, eval_stats, dae_locals, enqueuer, history>>

\* lines 155-193 and 293-295: the handshake loop ends with uciok (alive) or with
\* the end of the helper's stream; the session is marked ready, worker 0 clears
\* New_Game, the counter is incremented and the lock released
HandshakeEnd(t, alive) ==
  /\ pc[t] = "handshake"
  /\ vector_of_auxengine_ready_' =
       [vector_of_auxengine_ready_ EXCEPT ![our_index[t] + 1] = TRUE]
  /\ helper_running' = [helper_running EXCEPT ![our_index[t] + 1] = alive]
  /\ New_Game' = IF our_index[t] = 0 THEN FALSE ELSE New_Game
  /\ thread_counter' = thread_counter + 1
  /\ auxengine_mutex_' = NoThread
  /\ pc' = [pc EXCEPT ![t] = "loop"]
  /\ UNCHANGED <<stop_, auxengine_cv_, queues, results, auxengine_stopped_,
                 root_has_edges, final_purge_run, size_of_queue_at_start,
                 g_purges, eval_stats, our_index, dae_locals, enqueuer, history>>

\* lines 97-115 and 197-295: the session of the index is ready.  Worker 0 resets
\* the queues on a new game and purges the Work Queue unless final_purge_run is
\* set; line 280 reads final_purge_run and leaves it as it is.
RegisterResume(t, junk_is_root) ==
  /\ pc[t] = "start"
  /\ auxengine_mutex_ = NoThread
  /\ ~FirstUse(thread_counter)
  /\ our_index' = [our_index EXCEPT ![t] = thread_counter]
  /\ IF thread_counter = 0
     THEN LET reset == New_Game
              q0 == IF reset THEN <<>> ELSE persistent_queue_of_nodes
              size0 == IF reset THEN 0 ELSE size_of_queue_at_start
              runs == PurgeRuns(final_purge_run, size0)
          IN /\ New_Game' = FALSE
             /\ size_of_queue_at_start' = size0
             /\ source_of_PVs' = IF reset THEN <<>> ELSE source_of_PVs
             /\ source_of_queued_nodes' =
                  IF reset THEN <<>> ELSE source_of_queued_nodes
             /\ persistent_queue_of_nodes' =
                  IF runs THEN Purge(q0, size0, junk_is_root) ELSE q0
             /\ g_purges' = IF runs THEN g_purges + 1 ELSE g_purges
     ELSE UNCHANGED <<New_Game, size_of_queue_at_start, source_of_PVs,
                      source_of_queued_nodes, persistent_queue_of_nodes, g_purges>>
  /\ auxengine_stopped_' = Append(auxengine_stopped_, TRUE)
  /\ thread_counter' = thread_counter + 1
  /\ pc' = [pc EXCEPT ![t] = "loop"]
  /\ UNCHANGED <<stop_, auxengine_mutex_, auxengine_cv_, aux_pending,
                 fast_track_extend_and_evaluate_queue_,
                 vector_of_auxengine_ready_, helper_running, root_has_edges,
                 final_purge_run, eval_stats, dae_locals, enqueuer, history>>


\* ------------------------------------------------ the start of a move
MaxPairs == 2
PairNodes == {"b", "c"}
Markers == {root_node_, old_root_}

\* the Work Queue as the primary search leaves it for the purge: node, marker,
\* node, marker, ...
LaidOut(ps) ==
  [i \in 1..(2 * Len(ps)) |-> IF i % 2 = 1 THEN ps[(i + 1) \div 2][1]
                              ELSE ps[i \div 2][2]]

PurgeExample == <<"a", root_node_, "b", old_root_, "c", root_node_>>

PurgeInputs ==
  {LaidOut(ps) : ps \in UNION {[1..k -> PairNodes \X Markers] : k \in 0..MaxPairs}}
    \cup {PurgeExample}

\* The state when OpenAuxEngine has created the worker threads of a move:
\* `ready` sessions exist from earlier moves, q is the Work Queue (with one
\* source tag per task), no worker has registered.
InitMove(ready, q, new_game) ==
  /\ stop_ = FALSE
  /\ auxengine_mutex_ = NoThread
  /\ auxengine_cv_ = {}
  /\ persistent_queue_of_nodes = q
  /\ source_of_queued_nodes = [i \in 1..(Len(q) \div 2) |-> 1]
  /\ aux_pending = {}
  /\ fast_track_extend_and_evaluate_queue_ = <<>>
  /\ source_of_PVs = <<>>
  /\ thread_counter = 0
  /\ vector_of_auxengine_ready_ = [i \in 1..ready |-> TRUE]
  /\ helper_running = [i \in 1..ready |-> TRUE]
  /\ auxengine_stopped_ = <<>>
  /\ root_has_edges = (ready > 0)
  /\ pc = [t \in Threads |-> "start"]
  /\ our_index = [t \in Threads |-> 0]
  /\ n = [t \in Threads |-> root_node_]
  /\ depth = [t \in Threads |-> 0]
  /\ source = [t \in Threads |-> 0]
  /\ prev_line = [t \in Threads |-> EmptyLine]
  /\ stopping = [t \in Threads |-> FALSE]
  /\ second_stopping = [t \in Threads |-> FALSE]
  /\ pc_enq = "idle"
  /\ enq_n = root_node_
  /\ enq_source = 0
  /\ g_query = [t \in Threads |-> NoQuery]
  /\ g_enq_calls = 0
  /\ g_helper_lines = 0
  /\ g_sample = NoSample
  /\ g_deferred = {}
  /\ g_moves = 1
  /\ final_purge_run = FALSE
  /\ size_of_queue_at_start = Len(q)
  /\ New_Game = new_game
  /\ g_purges = 0
  /\ auxengine_num_evals = 0
  /\ evals_read = [t \in Threads |-> 0]

\* The first move of a game (no session yet), a later move with any laid-out
\* Work Queue, or the first move of a new game with the sessions of the last one.
InitR ==
  \/ InitMove(0, <<>>, TRUE)
  \/ \E q \in PurgeInputs : InitMove(NThreads, q, FALSE)
  \/ InitMove(NThreads, PurgeExample, TRUE)

\* Registration and the life of the workers of one move: the workers register
\* in any order, run their loops, every helper answers a query with its
\* bestmove line, and the primary search stops the search at any time.
NextR ==
  \/ \E t \in Threads : RegisterInit(t)
  \/ \E t \in Threads, alive \in BOOLEAN : HandshakeEnd(t, alive)
  \/ \E t \in Threads, junk_is_root \in BOOLEAN : RegisterResume(t, junk_is_root)
  \/ \E t \in Threads : LoopHead(t)
  \/ \E t \in Threads : RootCheck(t)
  \/ \E t \in Threads : RootPush(t)
  \/ \E t \in Threads : TreeWait(t)
  \/ \E t \in Threads : Wake(t)
  \/ \E t \in Threads : StopBreak(t)
  \/ \E t \in Threads : Exit(t)
  \/ \E t \in Threads : DaeEntry(t)
  \/ \E t \in Threads, smp \in Samples \cup {NoSample} : Admission(t, smp)
  \/ \E t \in Threads : StartQuery(t)
  \/ \E t \in Threads : ReadLine(t, L_bestmove)
  \/ \E t \in Threads : AfterLoop(t)
  \/ SetStop

SpecR == InitR /\ [][NextR]_vars


\* the tasks of a laid-out queue whose marker is the current root, in queue order
RetainedPairs(q) == {k \in 1..(Len(q) \div 2) : q[2 * k] = root_node_}
Retained(q) ==
  [j \in 1..Cardinality(RetainedPairs(q)) |->
     q[2 * (CHOOSE k \in RetainedPairs(q) :
              Cardinality({m \in RetainedPairs(q) : m <= k}) = j) - 1]]

\* C12: the purge of a Work Queue laid out as (node, marker) pairs leaves
\* exactly the nodes whose marker is the current root, in their queue order.
C12_PurgeRetains ==
  [][(g_purges = 0 /\ g_purges' = 1)
       => persistent_queue_of_nodes' = Retained(persistent_queue_of_nodes)]_vars

\* the queue [(a, root), (b, old root), (c, root)] was purged to [a, c]
C12_Witness ==
  /\ g_purges = 1
  /\ size_of_queue_at_start = Len(PurgeExample)
  /\ persistent_queue_of_nodes = <<"a", "c">>


\* C13: within one move the purge of the Work Queue is executed at most once.
C13_PurgeOnce == g_purges <= 1


\* a worker that has taken an index and has not left AuxEngineWorker
Alive(t) == pc[t] \notin {"start", "done"}

\* C14: no two workers that are alive at the same time hold the same index.
C14_DistinctIndexes ==
  \A t1, t2 \in Threads :
    (t1 # t2 /\ Alive(t1) /\ Alive(t2)) => our_index[t1] # our_index[t2]


\* a worker that has completed registration and has not yet exited
Registered(t) == pc[t] \notin {"start", "handshake", "done"}

\* C15: after every step the thread counter is the number of workers that have
\* completed registration and not yet exited, and a worker that completes the
\* registration it began with the handshake increments the counter while it
\* holds the coordination lock.
C15_CounterUnderLock ==
  [][/\ thread_counter' =
          Cardinality({t \in Threads : Registered(t)'})
     /\ \A t \in Threads :
          (pc[t] = "handshake" /\ pc'[t] # "handshake") => auxengine_mutex_ = t]_vars


\* C16: a shared structure is mutated only under its lock, so no update of it
\* is lost to a concurrent one: no two workers are inside the update of the
\* query statistics at the same time, and every step that changes
\* auxengine_num_evals adds one to its current value.
C16_LockedMutations ==
  [][/\ \A t1, t2 \in Threads :
          (pc'[t1] = "count_eval" /\ pc'[t2] = "count_eval") => t1 = t2
     /\ auxengine_num_evals' # auxengine_num_evals
          => auxengine_num_evals' = auxengine_num_evals + 1]_vars


\* a worker blocked in getline on its helper's output (lines 155 and 592)
ReadingHelper(t) == pc[t] \in {"handshake", "read"}

\* C17: a worker that is reading a line from its helper, in the handshake or in
\* a query, does not hold the coordination lock.
C17_NoLockWhileReading ==
  \A t \in Threads : ReadingHelper(t) => auxengine_mutex_ # t


\* the positions of a worker inside DoAuxEngine once `go` has been written
QueryPcs == {"read", "info_source", "encode_info", "publish_info", "after_loop",
             "count_eval", "final_source", "encode_final", "publish_final"}

\* the step in which DoAuxEngine returns from a query that was started
QueryReturns(t) == pc[t] \in QueryPcs /\ pc'[t] = "loop"

C19_DeadHelperIsFatal ==
  [][\A t \in Threads :
       /\ (/\ pc[t] = "after_loop"
           /\ pc'[t] # "after_loop"
           /\ ~stopping[t]
           /\ ~helper_running[our_index[t] + 1]) => pc'[t] = "died"
       /\ (pc[t] = "pre_query" /\ pc'[t] = "read")
            => helper_running[our_index[t] + 1]]_vars


\* ================================================================ decoding
\* info lines as a helper writes them: the depth it reached, then its PV
InfoLine(d, moves) == <<"info", "depth", d, "pv">> \o moves
DepthTokens == NumberTokens
PvInputs == {<<>>, <<"e2e4">>, <<"e2e4", "e7e5">>, <<"zzzz", "e2e4">>}
\* a PV of len moves, and one whose k-th token is no move
LongPv(len) == [i \in 1..len |-> IF i % 2 = 1 THEN "e2e4" ELSE "e7e5"]
BrokenPv(len, k) == [LongPv(len) EXCEPT ![k] = "zzzz"]
RawLength == 30
OverCap == 100
LongLines == {InfoLine("10", LongPv(RawLength)), InfoLine("120", LongPv(OverCap)),
              InfoLine("20", BrokenPv(6, 4)), InfoLine("10", BrokenPv(6, 4)),
              InfoLine("120", BrokenPv(OverCap, OverCap))}
DecoderLines ==
  {InfoLine(d, moves) : d \in DepthTokens, moves \in PvInputs} \cup LongLines

\* the fields of an info line
DepthOf(ln) == NumVal(ln[3])
PvOf(ln) == SubSeq(ln, 5, Len(ln))

\* Worker 0 alone: the root gets its edges, the worker queries it and the
\* helper writes any of the info lines, or its bestmove, at any time; every
\* line is decoded as it is read and the last one again when the query ends.
NextD ==
  \/ \E t \in Threads : LoopHead(t)
  \/ \E t \in Threads : RootCheck(t)
  \/ ExpandRoot
  \/ \E t \in Threads : RootPush(t)
  \/ \E t \in Threads : DaeEntry(t)
  \/ \E t \in Threads : Admission(t, NoSample)
  \/ \E t \in Threads : StartQuery(t)
  \/ \E t \in Threads, ln \in DecoderLines : ReadLine(t, ln)
  \/ \E t \in Threads : ReadLine(t, L_bestmove)
  \/ \E t \in Threads : InfoSource(t)
  \/ \E t \in Threads : AfterLoop(t)
  \/ \E t \in Threads : CountEval(t)
  \/ \E t \in Threads : FinalSource(t)
  \/ \E t \in Threads : Encode(t)
  \/ \E t \in Threads : PublishSource(t)

InitD == InitRegistered(1, <<>>)
SpecD == InitD /\ [][NextD]_vars


\* the step in which a worker's line is decoded, and what it does to the Result Queue
Decodes(t) == pc[t] \in {"encode_info", "encode_final"} /\ pc'[t] # pc[t]
PushesEntry ==
  Len(fast_track_extend_and_evaluate_queue_') = Len(fast_track_extend_and_evaluate_queue_) + 1
PushesNothing ==
  fast_track_extend_and_evaluate_queue_' = fast_track_extend_and_evaluate_queue_
FirstMoveParses(ln) == Len(PvOf(ln)) > 0 /\ ParseMoveOk(PvOf(ln)[1])

\* C20: a line `info depth D pv ...` decoded with requireDepth set publishes
\* nothing when D <= 14 and is published when D >= 15 and its first PV move
\* parses; decoded with requireDepth clear it is published also for D = 10 (for
\* every D >= 2) when its first PV move parses.
C20_DepthGate ==
  [][\A t \in Threads :
       (Decodes(t) /\ prev_line[t] \in DecoderLines) =>
         LET ln == prev_line[t]
             requireDepth == (pc[t] = "encode_info")
         IN /\ (requireDepth /\ DepthOf(ln) <= DepthFloor) => PushesNothing
            /\ (requireDepth /\ DepthOf(ln) >= 15 /\ FirstMoveParses(ln)) => PushesEntry
            /\ (~requireDepth /\ DepthOf(ln) >= 2 /\ FirstMoveParses(ln)) => PushesEntry]_vars

\* the line `info depth 10 pv e2e4 e7e5` was not published when it was read
\* (requireDepth set) and has been published at the end of the query
C20_Witness ==
  \E t \in Threads :
    /\ pc[t] = "publish_final"
    /\ prev_line[t] = InfoLine("10", <<"e2e4", "e7e5">>)
    /\ g_query[t].lines = 1
    /\ g_query[t].pushed = 1


\* the number of PV moves in the entry a decoding step has pushed
MovesPushed(t) ==
  Len(Back(fast_track_extend_and_evaluate_queue_')) - Len(PathFromRoot(n[t]))

\* C21: the PV moves decoded from a line `info depth D pv ...` are at most D
\* and at most 99, whatever the length of the PV.
C21_PvCapped ==
  [][\A t \in Threads :
       (Decodes(t) /\ prev_line[t] \in DecoderLines /\ PushesEntry) =>
         /\ MovesPushed(t) <= DepthOf(prev_line[t])
         /\ MovesPushed(t) <= max_pv_length]_vars

\* the PV of raw length 30 reported with depth 10 has been decoded and
\* published with at most 10 moves
C21_Witness ==
  \E t \in Threads :
    /\ pc[t] = "publish_final"
    /\ prev_line[t] = InfoLine("10", LongPv(RawLength))
    /\ Len(Back(fast_track_extend_and_evaluate_queue_)) \in 1..10


\* the position of the first PV token of a line that is no move, 0 if all parse
FirstBad(ln) ==
  LET bad == {k \in 1..Len(PvOf(ln)) : ~ParseMoveOk(PvOf(ln)[k])}
  IN IF bad = {} THEN 0 ELSE CHOOSE k \in bad : \A j \in bad : k <= j

\* the task of the query is not put back on the Work Queue by the decoding step
NotRetried == UNCHANGED <<persistent_queue_of_nodes, source_of_queued_nodes>>

\* the decoding step has published exactly the moves before token k
KeepsPrefix(t, k) ==
  /\ IF k > 1 THEN PushesEntry /\ MovesPushed(t) = k - 1 ELSE PushesNothing
  /\ NotRetried

\* C22 as stated: when the k-th PV token of a line is the first that is no move
\* and the reported depth is at least k, exactly the k-1 moves before it are
\* published and the task is not retried.
C22_KeepsPrefix ==
  [][\A t \in Threads :
       (Decodes(t) /\ prev_line[t] \in DecoderLines) =>
         LET ln == prev_line[t]
             k == FirstBad(ln)
         IN (k >= 1 /\ DepthOf(ln) >= k) => KeepsPrefix(t, k)]_vars

\* C22: the same, for a line whose PV loop is entered (line 403) and whose
\* k-th token is within the cap, k <= 99.
C22_KeepsPrefixInLoop ==
  [][\A t \in Threads :
       (Decodes(t) /\ prev_line[t] \in DecoderLines) =>
         LET ln == prev_line[t]
             k == FirstBad(ln)
         IN (/\ k >= 1
             /\ DepthOf(ln) >= k
             /\ k <= max_pv_length
             /\ PvAccepted(pc[t] = "encode_info", DepthOf(ln)))
            => KeepsPrefix(t, k)]_vars

\* the line whose fourth PV token is no move has been published with 3 moves
C22_Witness ==
  \E t \in Threads :
    /\ pc[t] \in {"publish_info", "publish_final"}
    /\ prev_line[t] = InfoLine("20", BrokenPv(6, 4))
    /\ Len(Back(fast_track_extend_and_evaluate_queue_)) = 3


\* ------------------------------------------------ the moves of a game
\* params_.GetAuxEngineInstances() of line 64, and the moves of a game looked at
MaxInstances == 4
MaxMoves == 2
Instances == 1..MaxInstances

\* The first move of a game with MaxInstances workers: no session exists, the
\* Work Queue is empty and the root is not expanded.
InitG ==
  /\ stop_ = FALSE
  /\ auxengine_mutex_ = NoThread
  /\ auxengine_cv_ = {}
  /\ persistent_queue_of_nodes = <<>>
  /\ source_of_queued_nodes = <<>>
  /\ aux_pending = {}
  /\ fast_track_extend_and_evaluate_queue_ = <<>>
  /\ source_of_PVs = <<>>
  /\ thread_counter = 0
  /\ vector_of_auxengine_ready_ = <<>>
  /\ helper_running = <<>>
  /\ auxengine_stopped_ = <<>>
  /\ root_has_edges = FALSE
  /\ pc = [t \in Instances |-> "start"]
  /\ our_index = [t \in Instances |-> 0]
  /\ n = [t \in Instances |-> root_node_]
  /\ depth = [t \in Instances |-> 0]
  /\ source = [t \in Instances |-> 0]
  /\ prev_line = [t \in Instances |-> EmptyLine]
  /\ stopping = [t \in Instances |-> FALSE]
  /\ second_stopping = [t \in Instances |-> FALSE]
  /\ pc_enq = "idle"
  /\ enq_n = root_node_
  /\ enq_source = 0
  /\ g_query = [t \in Instances |-> NoQuery]
  /\ g_enq_calls = 0
  /\ g_helper_lines = 0
  /\ g_sample = NoSample
  /\ g_deferred = {}
  /\ g_moves = 1
  /\ final_purge_run = FALSE
  /\ size_of_queue_at_start = 0
  /\ New_Game = TRUE
  /\ g_purges = 0
  /\ auxengine_num_evals = 0
  /\ evals_read = [t \in Instances |-> 0]

\* lines 691-738 and 62-67: AuxWait has joined every worker of the move and
\* emptied the Result Queue; the Search of the next move (stop_ clear, an empty
\* auxengine_stopped_) starts its workers.  The static vectors of lines 57-60
\* and search_stats_ are kept.
NextMove ==
  /\ \A t \in DOMAIN pc : pc[t] = "done"
  /\ g_moves < MaxMoves
  /\ g_moves' = g_moves + 1
  /\ stop_' = FALSE
  /\ auxengine_mutex_' = NoThread
  /\ auxengine_cv_' = {}
  /\ auxengine_stopped_' = <<>>
  /\ fast_track_extend_and_evaluate_queue_' = <<>>
  /\ source_of_PVs' =
       IF fast_track_extend_and_evaluate_queue_ = <<>> THEN source_of_PVs ELSE <<>>
  /\ pc' = [t \in DOMAIN pc |-> "start"]
  /\ UNCHANGED <<queues, sessions, root_has_edges, purge_state, eval_stats,
                 our_index, dae_locals, enqueuer, g_enq_calls, g_helper_lines,
                 g_sample, g_deferred>>

\* The workers of MaxInstances helpers over the moves of a game: they register
\* in any order, the root worker polls the unexpanded root, the tree-consumer
\* workers wait on the empty Work Queue, and the search of each move is stopped.
NextG ==
  \/ \E t \in Instances : RegisterInit(t)
  \/ \E t \in Instances, alive \in BOOLEAN : HandshakeEnd(t, alive)
  \/ \E t \in Instances, junk_is_root \in BOOLEAN : RegisterResume(t, junk_is_root)
  \/ \E t \in Instances : LoopHead(t)
  \/ \E t \in Instances : RootCheck(t)
  \/ \E t \in Instances : TreeWait(t)
  \/ \E t \in Instances : Wake(t)
  \/ \E t \in Instances : StopBreak(t)
  \/ \E t \in Instances : Exit(t)
  \/ SetStop
  \/ NextMove

SpecG == InitG /\ [][NextG]_vars

\* a worker starts a helper subprocess and begins its handshake
Spawns(t) == pc[t] = "start" /\ pc'[t] = "handshake"
\* a worker starts with a session that is ready
Resumes(t) == pc[t] = "start" /\ pc'[t] = "loop"

\* C23: over the moves of a game a helper is started only for an index that
\* has no session yet, so once per index; a worker that finds the session of
\* its index ready starts no helper and adds no session.
C23_SpawnedOnce ==
  [][\A t \in DOMAIN pc :
       /\ Spawns(t) => thread_counter + 1 > Len(vector_of_auxengine_ready_)
       /\ Resumes(t) => /\ vector_of_auxengine_ready_' = vector_of_auxengine_ready_
                        /\ helper_running' = helper_running]_vars


\* ================================================================ shutdown
\* every step of a worker between its loop head and its exit
WorkerStepS(t) ==
  \/ WorkerStep(t)
  \/ InfoSource(t)
  \/ CountEval(t)
  \/ FinalSource(t)
  \/ Encode(t)
  \/ PublishSource(t)

\* `stop` has been written to the helper of a worker's running query: the latch
\* of lines 625-629 is set
StopWritten(t) == pc[t] = "read" /\ auxengine_stopped_[our_index[t] + 1]

\* a helper that was sent `go infinite` answers `stop` with its bestmove line
HelperAnswersStop(t) == our_index[t] = 0 /\ StopWritten(t) /\ ReadLine(t, L_bestmove)

\* Shutdown: worker 0 and one tree-consumer worker are registered, one task is
\* queued.  Every worker thread
\* keeps running, waiting workers are woken, a helper that was sent `go movetime`
\* answers, and a helper that was sent `go infinite` answers `stop` (weak
\* fairness each).  A searching helper may emit an info line or stay silent, and
\* the primary search may send stop itself.
NextS ==
  \/ \E t \in Threads : WorkerStepS(t)
  \/ \E t \in Threads : Wake(t)
  \/ \E t \in Threads : HelperReplies(t)
  \/ \E t \in Threads : HelperAnswersStop(t)
  \/ \E t \in Threads : ReadLine(t, L_info20)
  \/ \E i \in 1..NThreads : MaybeTriggerStop(i)
  \/ SetStop

InitS == InitRegistered(2, << <<"b", 1>> >>)

FairS ==
  \A t \in Threads :
    /\ WF_vars(WorkerStepS(t))
    /\ WF_vars(Wake(t))
    /\ WF_vars(HelperReplies(t))
    /\ WF_vars(HelperAnswersStop(t))

SpecS == InitS /\ [][NextS]_vars /\ FairS

Unlocks(t) ==
  \/ pc[t] = "handshake" /\ pc'[t] = "loop"
  \/ pc[t] = "stop_break" /\ pc'[t] = "exit"

\* the workers that are inside the critical section of the registration
InRegistration == {t \in DOMAIN pc : pc[t] = "handshake"}

\* C25: every release of auxengine_mutex_ is made by the thread that holds it,
\* and at most one thread is inside a critical section of the lock.
C25_ReleasedByHolder ==
  /\ [][\A t \in DOMAIN pc : Unlocks(t) => auxengine_mutex_ = t]_vars
  /\ [](Cardinality(InRegistration) <= 1)


\* a worker's step that reads front() of source_of_queued_nodes: line 638 on an
\* info line, lines 497-498 on deferral, lines 683-684 on completion
ReadsSourceFront(t) ==
  \/ pc[t] = "info_source" /\ pc'[t] = "encode_info"
  \/ Requeues(t)
  \/ pc[t] = "final_source" /\ pc'[t] = "encode_final"

\* C27: whenever a worker reads or pops the front of source_of_queued_nodes,
\* that queue is not empty.
C27_FrontOfNonEmpty ==
  [][\A t \in DOMAIN pc : ReadsSourceFront(t) => Len(source_of_queued_nodes) > 0]_vars


\* ------------------------------------------------ the source-tag queue
\* the workers of the move that get to run
Started == 1..2

\* A move from its start: the sessions exist, the Work Queue holds one task
\* still below the root, laid out for the purge, and the move may be the first
\* of a new game.
InitT == \E new_game \in BOOLEAN : InitMove(NThreads, <<"c", root_node_>>, new_game)

\* Worker 0 and one tree-consumer worker register (reset, purge), the primary
\* search enqueues nodes and stops the search at any time, tasks are dequeued,
\* deferred, analysed; the helpers answer with their bestmove line, before it
\* one info line is reported in the move.
NextT ==
  \/ \E t \in Started, junk_is_root \in BOOLEAN : RegisterResume(t, junk_is_root)
  \/ EnqCall("c", 2)
  \/ EnqPush
  \/ EnqNotify
  \/ \E t \in Started : WorkerStepS(t)
  \/ \E t \in Started : Wake(t)
  \/ \E t \in Started : g_helper_lines = 0 /\ HelperReports(t)
  \/ \E t \in Started : ReadLine(t, L_bestmove)
  \/ SetStop

SpecT == InitT /\ [][NextT]_vars


\* in the first move of a new game (the queues were reset, no purge ran) a
\* query that read an info line has completed and popped the only tag queued
C27_Witness ==
  \E t \in Started :
    /\ pc[t] = "encode_final"
    /\ g_purges = 0
    /\ g_query[t].lines >= 1
    /\ source[t] = 2
    /\ Len(source_of_queued_nodes) = 0


\* a worker writes `position` and `go` to its session (lines 567-575)
WritesGo(t) == pc[t] = "pre_query" /\ pc'[t] = "read"
\* the workers whose query is between its `go` and the end of its read loop
InQuery(idx) == {t \in DOMAIN pc : our_index[t] = idx /\ pc[t] \in QueryPcs \ {"pre_query"}}

\* C26: `position` and `go` are written to a session only when the query
\* before it on that session was ended by a bestmove line: the stream of the
\* session has not ended in a read loop, and no query is open on the session.
C26_SequentialQueries ==
  [][\A t \in DOMAIN pc :
       WritesGo(t) => /\ helper_running[our_index[t] + 1]
                      /\ InQuery(our_index[t]) = {}]_vars


\* a registered worker is inside DoAuxEngine with a query open: between the
\* write of `go` and the return
InsideQuery(t) == pc[t] \in QueryPcs \ {"pre_query"}
\* the worker has registered (its entry of auxengine_stopped_ exists)
HasSession(t) == pc[t] \notin {"start", "handshake"}

\* C28: the idle flag of the session of a worker that is not inside a query is
\* true; it is false only from the write of `go` until `stop` is sent for the
\* query or the query completes.
C28_IdleOutsideQuery ==
  \A t \in DOMAIN pc :
    (HasSession(t) /\ ~InsideQuery(t)) => auxengine_stopped_[our_index[t] + 1]



====
